---- MODULE Spec2Model ----
(***************************************************************************)
(* Model of the employee vacation-request service (src/app.py).            *)
(*                                                                         *)
(* State: the module-level collections `employees` and                     *)
(* `vacation_requests` (the ledger), plus `resp`, the HTTP response of the *)
(* last handler that ran.  `managers` is never written and is a            *)
(* definition.  Every Flask handler is one action; its inputs (path ids,   *)
(* query string, JSON body) are drawn from the small input sets below.     *)
(*                                                                         *)
(* Strings that the code compares with <= (the stored ISO dates) are       *)
(* sequences of character codes, compared lexicographically as Python      *)
(* compares str.  Datetimes are records, parsed from and formatted to      *)
(* such strings as datetime.fromisoformat / isoformat do.                  *)
(* The field request_submitted_at (datetime.now()) is not modelled: no     *)
(* handler reads it.                                                       *)
(***************************************************************************)
EXTENDS Integers, Sequences, FiniteSets, TLC

VARIABLES employees, vacation_requests, resp, threads

vars == <<employees, vacation_requests, resp, threads>>

---------------------------------------------------------------------------
(* Bounds of the model *)

\* Spec never grows the ledger beyond this many requests
MaxLedger == 2

\* SpecOverlap never grows the ledger beyond this many requests
MaxOverlapLedger == 2

\* SpecStaff never grows the ledger beyond this many requests
MaxStaffLedger == 3

\* SpecDays never grows the ledger beyond this many requests
MaxDaysLedger == 1

\* SpecProcessing never grows the ledger beyond this many requests
MaxProcessingLedger == 1

\* SpecReading never grows the ledger beyond this many requests
MaxReadingLedger == 2

\* SpecSubmitting never grows the ledger beyond this many requests
MaxSubmittingLedger == 2

\* SpecDays submits spans within this many days from Monday, March 4th 2024
DaySpan == 8

---------------------------------------------------------------------------
(* Python values *)

\* Python's None (processed_by of an unprocessed request)
None == -1

\* the directories of src/app.py
SeedEmployees ==
    (1 :> [name |-> "John Doe", remaining_vacation_days |-> 20]) @@
    (2 :> [name |-> "Jane Smith", remaining_vacation_days |-> 20])

\* the directory with one more employee added to it, as the comment above
\* the dictionaries invites ("All employee and manager data can be added here")
StaffEmployees ==
    SeedEmployees @@ (3 :> [name |-> "Employee 3", remaining_vacation_days |-> 20])

managers == (1 :> [name |-> "Manager 1"]) @@ (2 :> [name |-> "Manager 2"])

\* mutant: every id passes for a manager
is_manager_Anyone(manager_id) == TRUE

is_manager(manager_id) == manager_id \in DOMAIN managers

---------------------------------------------------------------------------
(* str: sequences of character codes, ordered as Python orders str *)

Ch0 == 48        \* "0"
ChDash == 45     \* "-"
ChColon == 58    \* ":"
ChT == 84        \* "T"

IsDigit(c) == c >= Ch0 /\ c <= Ch0 + 9

StrLt(a, b) ==
    \E k \in 1..(Len(b)) :
        /\ \A i \in 1..(k - 1) : i <= Len(a) /\ a[i] = b[i]
        /\ \/ k > Len(a)
           \/ k <= Len(a) /\ a[k] < b[k]

StrLe(a, b) == a = b \/ StrLt(a, b)

\* two- and four-digit zero-padded decimal fields of isoformat()
Digits2(n) == <<Ch0 + (n \div 10), Ch0 + (n % 10)>>

Digits4(n) == <<Ch0 + (n \div 1000), Ch0 + ((n \div 100) % 10),
                Ch0 + ((n \div 10) % 10), Ch0 + (n % 10)>>

Num2(s, i) == (s[i] - Ch0) * 10 + (s[i + 1] - Ch0)

Num4(s, i) == (s[i] - Ch0) * 1000 + (s[i + 1] - Ch0) * 100
              + (s[i + 2] - Ch0) * 10 + (s[i + 3] - Ch0)

---------------------------------------------------------------------------
(* datetime *)

IsLeap(y) == y % 4 = 0 /\ (y % 100 # 0 \/ y % 400 = 0)

DaysInMonth(y, m) ==
    IF m = 2 THEN (IF IsLeap(y) THEN 29 ELSE 28)
    ELSE IF m \in {4, 6, 9, 11} THEN 30 ELSE 31

RECURSIVE DaysBeforeMonth(_, _)
DaysBeforeMonth(y, m) ==
    IF m = 1 THEN 0 ELSE DaysBeforeMonth(y, m - 1) + DaysInMonth(y, m - 1)

DaysBeforeYear(y) ==
    (y - 1) * 365 + ((y - 1) \div 4) - ((y - 1) \div 100) + ((y - 1) \div 400)

\* datetime.toordinal(): 1 is 0001-01-01
ToOrdinal(dt) == DaysBeforeYear(dt.year) + DaysBeforeMonth(dt.year, dt.month) + dt.day

\* datetime.weekday(): 0 is Monday, computed from an ordinal
Weekday(ordinal) == (ordinal + 6) % 7

ValueError == [valid |-> FALSE, year |-> 0, month |-> 0, day |-> 0, hour |-> 0]

\* datetime.fromisoformat on "YYYY-MM-DD" or "YYYY-MM-DDTHH:00:00"
fromisoformat(s) ==
    LET dateOk == /\ Len(s) >= 10
                  /\ \A i \in {1, 2, 3, 4, 6, 7, 9, 10} : IsDigit(s[i])
                  /\ s[5] = ChDash /\ s[8] = ChDash
        timeOk == \/ Len(s) = 10
                  \/ /\ Len(s) = 19
                     /\ s[11] = ChT
                     /\ \A i \in {12, 13, 15, 16, 18, 19} : IsDigit(s[i])
                     /\ s[14] = ChColon /\ s[17] = ChColon
                     /\ Num2(s, 15) = 0 /\ Num2(s, 18) = 0
    IN  IF ~(dateOk /\ timeOk) THEN ValueError
        ELSE LET y == Num4(s, 1)
                 m == Num2(s, 6)
                 d == Num2(s, 9)
                 h == IF Len(s) = 10 THEN 0 ELSE Num2(s, 12)
             IN  IF /\ y >= 1 /\ m \in 1..12 /\ h \in 0..23
                    /\ d >= 1 /\ d <= DaysInMonth(y, m)
                 THEN [valid |-> TRUE, year |-> y, month |-> m, day |-> d, hour |-> h]
                 ELSE ValueError

\* datetime.isoformat(): "YYYY-MM-DDTHH:00:00"
isoformat(dt) ==
    Digits4(dt.year) \o <<ChDash>> \o Digits2(dt.month) \o <<ChDash>>
    \o Digits2(dt.day) \o <<ChT>> \o Digits2(dt.hour)
    \o <<ChColon, Ch0, Ch0, ChColon, Ch0, Ch0>>

\* hours since the start of ordinal 0: the order of datetime values
Instant(dt) == ToOrdinal(dt) * 24 + dt.hour

\* mutant: only an end before the start is refused
EndNotAfterStart_Strict(start_date, end_date) == Instant(end_date) < Instant(start_date)

\* end_date <= start_date
EndNotAfterStart(start_date, end_date) == Instant(end_date) <= Instant(start_date)

\* (end_date - start_date).days
DeltaDays(start_date, end_date) == (Instant(end_date) - Instant(start_date)) \div 24

\* the loop that counts the weekdays among request_duration consecutive days
BusinessDays(start_date, end_date) ==
    LET request_duration == DeltaDays(start_date, end_date) + 1
    IN  Cardinality({i \in 0..(request_duration - 1) :
                        Weekday(ToOrdinal(start_date) + i) < 5})

\* mutant: the balance check lets every request through
HasEnoughDays_NoCheck(remaining, vacation_duration) == TRUE

\* mutant: the balance check refuses a request that uses the whole balance
HasEnoughDays_Strict(remaining, vacation_duration) == ~(remaining <= vacation_duration)

HasEnoughDays(remaining, vacation_duration) == ~(remaining < vacation_duration)

\* mutant: the balance is decremented by the calendar length of the span
Debit_Calendar(remaining, vacation_duration, request_duration) ==
    remaining - request_duration

\* mutant: the balance is decremented twice
Debit_Twice(remaining, vacation_duration, request_duration) ==
    remaining - 2 * vacation_duration

\* employee["remaining_vacation_days"] -= vacation_duration
Debit(remaining, vacation_duration, request_duration) == remaining - vacation_duration

\* mutant: 0-based request ids
NextRequestId_ZeroBased(ledger) == Len(ledger)

NextRequestId(ledger) == Len(ledger) + 1

NewRequest(ledger, employee_id, start_date, end_date) ==
    [request_id |-> NextRequestId(ledger),
     applicant |-> employee_id,
     status |-> "pending",
     processed_by |-> None,
     vacation_start_date |-> isoformat(start_date),
     vacation_end_date |-> isoformat(end_date)]

---------------------------------------------------------------------------
(* Threads of the server: app.run serves every call on a thread of its own *)

Threads == {1, 2}

\* a thread that serves no call
Idle == [pc |-> "idle", op |-> ""]

\* thread t goes on serving a call
Serving(t, call) == threads' = [threads EXCEPT ![t] = call]

\* thread t sends the response of a call, keeps it in ret and is free for
\* the next call
Returning(t, call, response) ==
    threads' = [threads EXCEPT ![t] = [call EXCEPT !.pc = "idle", !.ret = response]]

\* a call served from its first to its last statement with no statement of
\* another call in between
Whole(call) == call /\ UNCHANGED threads

---------------------------------------------------------------------------
(* Responses *)

Response(op, code, msg, data) == [op |-> op, code |-> code, msg |-> msg, data |-> data]

\* an exception that no handler catches: Flask answers 500
InternalServerError(op) == Response(op, 500, "Internal Server Error", <<>>)

---------------------------------------------------------------------------
(* Handlers *)

\* mutant: the ?status= filter is ignored
FilterByStatus_Ignored(requests, status) == requests

\* the requests of a list that pass the ?status= filter ("" is no filter)
FilterByStatus(requests, status) ==
    IF status # ""
    THEN LET Keep(req) == req.status = status IN SelectSeq(requests, Keep)
    ELSE requests

\* GET /employees/<employee_id>/requests
GetEmployeeRequests(employee_id, status) ==
    LET Mine(req) == req.applicant = employee_id
        employee_requests == SelectSeq(vacation_requests, Mine)
    IN  /\ resp' = Response("get_employee_requests", 200, "",
                            FilterByStatus(employee_requests, status))
        /\ UNCHANGED <<employees, vacation_requests>>

\* GET /employees/<employee_id>/remaining_days
GetRemainingVacationDays(employee_id) ==
    /\ resp' = IF employee_id \in DOMAIN employees
               THEN Response("get_remaining_vacation_days", 200, "",
                             <<employees[employee_id].remaining_vacation_days>>)
               ELSE InternalServerError("get_remaining_vacation_days")
    /\ UNCHANGED <<employees, vacation_requests>>

\* POST /employees/<employee_id>/requests
MakeVacationRequest(employee_id, data) ==
    LET op == "make_vacation_request"
        Fail(r) == resp' = r /\ UNCHANGED <<employees, vacation_requests>>
    IN
    IF employee_id \notin DOMAIN employees
    THEN Fail(InternalServerError(op))
    ELSE IF "vacation_start_date" \notin DOMAIN data \/ "vacation_end_date" \notin DOMAIN data
    THEN Fail(Response(op, 400, "Invalid request data", <<>>))
    ELSE
    LET start_date == fromisoformat(data.vacation_start_date)
        end_date == fromisoformat(data.vacation_end_date)
    IN
    IF ~start_date.valid \/ ~end_date.valid
    THEN Fail(InternalServerError(op))
    ELSE IF EndNotAfterStart(start_date, end_date)
    THEN Fail(Response(op, 400, "End date must be after start date", <<>>))
    ELSE
    LET vacation_duration == BusinessDays(start_date, end_date)
        remaining == employees[employee_id].remaining_vacation_days
    IN
    IF ~HasEnoughDays(remaining, vacation_duration)
    THEN Fail(Response(op, 400, "Not enough remaining vacation days", <<>>))
    ELSE /\ employees' = [employees EXCEPT
                ![employee_id].remaining_vacation_days =
                    Debit(remaining, vacation_duration,
                          DeltaDays(start_date, end_date) + 1)]
         /\ vacation_requests' = Append(vacation_requests,
                NewRequest(vacation_requests, employee_id, start_date, end_date))
         /\ resp' = Response(op, 201, "Vacation request submitted", <<>>)

\* GET /managers/<manager_id>/requests
GetManagerRequests(manager_id, status) ==
    /\ resp' = IF ~is_manager(manager_id)
               THEN Response("get_manager_requests", 401, "Unauthorized", <<>>)
               ELSE Response("get_manager_requests", 200, "",
                             FilterByStatus(vacation_requests, status))
    /\ UNCHANGED <<employees, vacation_requests>>

\* mutant: only the endpoints of request2 are looked for inside request1
DatesOverlap_OneWay(request1, request2) ==
    \/ /\ StrLe(request1.vacation_start_date, request2.vacation_start_date)
       /\ StrLe(request2.vacation_start_date, request1.vacation_end_date)
    \/ /\ StrLe(request1.vacation_start_date, request2.vacation_end_date)
       /\ StrLe(request2.vacation_end_date, request1.vacation_end_date)

\* the four-way endpoint test on the stored date strings
DatesOverlap(request1, request2) ==
    \/ /\ StrLe(request1.vacation_start_date, request2.vacation_start_date)
       /\ StrLe(request2.vacation_start_date, request1.vacation_end_date)
    \/ /\ StrLe(request1.vacation_start_date, request2.vacation_end_date)
       /\ StrLe(request2.vacation_end_date, request1.vacation_end_date)
    \/ /\ StrLe(request2.vacation_start_date, request1.vacation_start_date)
       /\ StrLe(request1.vacation_start_date, request2.vacation_end_date)
    \/ /\ StrLe(request2.vacation_start_date, request1.vacation_end_date)
       /\ StrLe(request1.vacation_end_date, request2.vacation_end_date)

\* the condition under which a pair is appended to overlapping_requests
IsOverlappingPair(request1, request2) ==
    /\ request1.applicant # request2.applicant
    /\ request1.status = "approved"
    /\ request2.status = "approved"
    /\ DatesOverlap(request1, request2)

\* mutant: the inner loop starts at the first request instead of after i
RECURSIVE ScanPairs_FromStart(_, _, _, _)
ScanPairs_FromStart(ledger, i, j, overlapping_requests) ==
    IF i > Len(ledger) THEN overlapping_requests
    ELSE IF j > Len(ledger) THEN ScanPairs_FromStart(ledger, i + 1, 1, overlapping_requests)
    ELSE ScanPairs_FromStart(ledger, i, j + 1,
                   IF IsOverlappingPair(ledger[i], ledger[j])
                   THEN Append(overlapping_requests, <<ledger[i], ledger[j]>>)
                   ELSE overlapping_requests)

\* the nested loops: i over the ledger, j over the positions after i
RECURSIVE ScanPairs(_, _, _, _)
ScanPairs(ledger, i, j, overlapping_requests) ==
    IF i > Len(ledger) THEN overlapping_requests
    ELSE IF j > Len(ledger) THEN ScanPairs(ledger, i + 1, i + 2, overlapping_requests)
    ELSE ScanPairs(ledger, i, j + 1,
                   IF IsOverlappingPair(ledger[i], ledger[j])
                   THEN Append(overlapping_requests, <<ledger[i], ledger[j]>>)
                   ELSE overlapping_requests)

OverlappingRequests(ledger) == ScanPairs(ledger, 1, 2, <<>>)

\* GET /managers/<manager_id>/overlapping_requests
GetOverlappingRequests(manager_id) ==
    /\ resp' = IF ~is_manager(manager_id)
               THEN Response("get_overlapping_requests", 401, "Unauthorized", <<>>)
               ELSE Response("get_overlapping_requests", 200, "",
                             OverlappingRequests(vacation_requests))
    /\ UNCHANGED <<employees, vacation_requests>>

\* the search loop of process_request: position of the first request with
\* that id, 0 when the loop ends without a match
FindRequest(ledger, request_id) ==
    IF \E i \in 1..Len(ledger) : ledger[i].request_id = request_id
    THEN CHOOSE i \in 1..Len(ledger) :
            /\ ledger[i].request_id = request_id
            /\ \A k \in 1..(i - 1) : ledger[k].request_id # request_id
    ELSE 0

\* mutant: the pending check is missing
IsPending_Always(req) == TRUE

\* mutant: only a rejected request counts as processed
IsPending_NotRejected(req) == req.status # "rejected"

IsPending(req) == req.status = "pending"

\* mutant: the applicant's id is recorded as the processing manager
Processed_ByApplicant(req, status, manager_id) ==
    [req EXCEPT !.status = status, !.processed_by = req.applicant]

\* mutant: the processing manager is not recorded
Processed_StatusOnly(req, status, manager_id) == [req EXCEPT !.status = status]

\* the two assignments to the request found
Processed(req, status, manager_id) ==
    [req EXCEPT !.status = status, !.processed_by = manager_id]

\* mutant: the request is searched for before the body is looked at
ProcessRequest_SearchFirst(manager_id, request_id, data) ==
    LET op == "process_request"
        Fail(r) == resp' = r /\ UNCHANGED <<employees, vacation_requests>>
        pos == FindRequest(vacation_requests, request_id)
    IN
    IF ~is_manager(manager_id)
    THEN Fail(Response(op, 401, "Unauthorized", <<>>))
    ELSE IF pos = 0
    THEN Fail(Response(op, 404, "Request not found", <<>>))
    ELSE IF "status" \notin DOMAIN data
    THEN Fail(Response(op, 400, "Invalid request data", <<>>))
    ELSE IF data.status \notin {"approved", "rejected"}
    THEN Fail(Response(op, 400, "Invalid status", <<>>))
    ELSE IF IsPending(vacation_requests[pos])
    THEN /\ vacation_requests' = [vacation_requests EXCEPT
                ![pos] = Processed(vacation_requests[pos], data.status, manager_id)]
         /\ resp' = Response(op, 200,
                             IF data.status = "approved"
                             THEN "Request has been approved"
                             ELSE "Request has been rejected", <<>>)
         /\ UNCHANGED employees
    ELSE Fail(Response(op, 400, "Request has already been processed", <<>>))

\* PUT /managers/<manager_id>/requests/<request_id>
ProcessRequest(manager_id, request_id, data) ==
    LET op == "process_request"
        Fail(r) == resp' = r /\ UNCHANGED <<employees, vacation_requests>>
        pos == FindRequest(vacation_requests, request_id)
    IN
    IF ~is_manager(manager_id)
    THEN Fail(Response(op, 401, "Unauthorized", <<>>))
    ELSE IF "status" \notin DOMAIN data
    THEN Fail(Response(op, 400, "Invalid request data", <<>>))
    ELSE IF data.status \notin {"approved", "rejected"}
    THEN Fail(Response(op, 400, "Invalid status", <<>>))
    ELSE IF pos = 0
    THEN Fail(Response(op, 404, "Request not found", <<>>))
    ELSE IF IsPending(vacation_requests[pos])
    THEN /\ vacation_requests' = [vacation_requests EXCEPT
                ![pos] = Processed(vacation_requests[pos], data.status, manager_id)]
         /\ resp' = Response(op, 200,
                             IF data.status = "approved"
                             THEN "Request has been approved"
                             ELSE "Request has been rejected", <<>>)
         /\ UNCHANGED employees
    ELSE Fail(Response(op, 400, "Request has already been processed", <<>>))

---------------------------------------------------------------------------
(* Inputs *)

\* text of a date and of a date with an hour, as a client writes them
DateText(y, m, d) == Digits4(y) \o <<ChDash>> \o Digits2(m) \o <<ChDash>> \o Digits2(d)

DateTimeText(y, m, d, h) ==
    DateText(y, m, d) \o <<ChT>> \o Digits2(h) \o <<ChColon, Ch0, Ch0, ChColon, Ch0, Ch0>>

Dates(s, e) == [vacation_start_date |-> s, vacation_end_date |-> e]

\* 2024: March 4th, 11th, 18th and April 1st are Mondays, March 9th a Saturday
Mon04 == DateText(2024, 3, 4)
Sat09 == DateTimeText(2024, 3, 9, 0)
Sun10 == DateTimeText(2024, 3, 10, 0)
Fri15 == DateText(2024, 3, 15)
Mon18 == DateText(2024, 3, 18)
Apr01 == DateText(2024, 4, 1)

SubmitBodies ==
    { Dates(Mon04, Fri15),      \* ten business days in twelve days
      Dates(Mon04, Apr01),      \* twenty-one business days: more than any balance
      Dates(Fri15, Fri15),      \* end = start
      Dates(Fri15, Mon04),      \* end < start
      Dates(<<>>, Fri15),       \* not a date
      [vacation_start_date |-> Mon04] }   \* a key is missing

ProcessBodies ==
    { [status |-> "approved"], [status |-> "rejected"], [status |-> "pending"],
      [comment |-> "approved"] }

StatusFilters == {"", "pending", "approved", "rejected"}

\* ids 1 and 2 are in the directories, 3 is in neither
EmployeeIds == 1..3
ManagerIds == 1..3
RequestIds == 1..(MaxLedger + 1)

---------------------------------------------------------------------------
(* Specification *)

Init ==
    /\ employees = SeedEmployees
    /\ vacation_requests = <<>>
    /\ resp = Response("", 0, "", <<>>)
    /\ threads = [t \in Threads |-> Idle]

Next ==
    \/ \E e \in EmployeeIds, f \in StatusFilters : Whole(GetEmployeeRequests(e, f))
    \/ \E e \in EmployeeIds : Whole(GetRemainingVacationDays(e))
    \/ \E e \in EmployeeIds, d \in SubmitBodies :
          Whole(MakeVacationRequest(e, d)) /\ Len(vacation_requests') <= MaxLedger
    \/ \E m \in ManagerIds, f \in StatusFilters : Whole(GetManagerRequests(m, f))
    \/ \E m \in ManagerIds : Whole(GetOverlappingRequests(m))
    \/ \E m \in ManagerIds, r \in RequestIds, d \in ProcessBodies :
          Whole(ProcessRequest(m, r, d))

Spec == Init /\ [][Next]_vars

---------------------------------------------------------------------------
(* The overlap report over spans that contain each other, touch, cross and
   lie apart: submissions by the two employees, approvals and rejections by
   manager 1, and the report *)

Mon11 == DateText(2024, 3, 11)

OverlapBodies ==
    { Dates(Mon04, Fri15),      \* contains the weekend
      Dates(Sat09, Sun10),      \* a weekend: no business day
      Dates(Mon11, Mon18),      \* crosses the first span, after the weekend
      Dates(Fri15, Mon18) }     \* begins on the day the first span ends

NextOverlap ==
    \/ \E e \in DOMAIN SeedEmployees, d \in OverlapBodies :
          Whole(MakeVacationRequest(e, d)) /\ Len(vacation_requests') <= MaxOverlapLedger
    \/ \E m \in {1, 3} : Whole(GetOverlappingRequests(m))
    \/ \E r \in 1..MaxOverlapLedger, st \in {"approved", "rejected"} :
          Whole(ProcessRequest(1, r, [status |-> st]))

SpecOverlap == Init /\ [][NextOverlap]_vars

---------------------------------------------------------------------------
(* The overlap report over a directory of three employees: submissions,
   approvals by manager 1, and the report *)

StaffBodies == {Dates(Sat09, Sun10), Dates(Fri15, Mon18)}

InitStaff ==
    /\ employees = StaffEmployees
    /\ vacation_requests = <<>>
    /\ resp = Response("", 0, "", <<>>)
    /\ threads = [t \in Threads |-> Idle]

NextStaff ==
    \/ \E e \in DOMAIN StaffEmployees, d \in StaffBodies :
          Whole(MakeVacationRequest(e, d)) /\ Len(vacation_requests') <= MaxStaffLedger
    \/ \E m \in {1, 3} : Whole(GetOverlappingRequests(m))
    \/ \E r \in 1..MaxStaffLedger : Whole(ProcessRequest(1, r, [status |-> "approved"]))

SpecStaff == InitStaff /\ [][NextStaff]_vars

---------------------------------------------------------------------------
(* The day count: submissions by employee 1 of every pair of a start and an
   end among the midnights and noons of consecutive days *)

DayTexts == {DateTimeText(2024, 3, 3 + n, h) : n \in 1..DaySpan, h \in {0, 12}}

DayBodies == {Dates(a, b) : a \in DayTexts, b \in DayTexts}

NextDays ==
    \E d \in DayBodies :
        Whole(MakeVacationRequest(1, d)) /\ Len(vacation_requests') <= MaxDaysLedger

SpecDays == Init /\ [][NextDays]_vars

---------------------------------------------------------------------------
(* process_request and the three reads, statement by statement on the
   threads of the server *)

ProcessCall(manager_id, request_id, data) ==
    [pc |-> "idle", op |-> "process_request", manager_id |-> manager_id,
     request_id |-> request_id, data |-> data, pos |-> 0,
     ret |-> Response("", 0, "", <<>>)]

\* process_request up to the end of the search loop: nothing here reads a
\* field that a call writes
ProcessBegin(t, manager_id, request_id, data) ==
    LET op == "process_request"
        call == ProcessCall(manager_id, request_id, data)
        pos == FindRequest(vacation_requests, request_id)
    IN
    /\ threads[t].pc = "idle"
    /\ IF ~is_manager(manager_id)
       THEN Returning(t, call, Response(op, 401, "Unauthorized", <<>>))
       ELSE IF "status" \notin DOMAIN data
       THEN Returning(t, call, Response(op, 400, "Invalid request data", <<>>))
       ELSE IF data.status \notin {"approved", "rejected"}
       THEN Returning(t, call, Response(op, 400, "Invalid status", <<>>))
       ELSE IF pos = 0
       THEN Returning(t, call, Response(op, 404, "Request not found", <<>>))
       ELSE Serving(t, [call EXCEPT !.pc = "check_pending", !.pos = pos])
    /\ UNCHANGED <<employees, vacation_requests, resp>>

\* if request_to_process['status'] == 'pending'
ProcessCheck(t) ==
    LET call == threads[t] IN
    /\ call.pc = "check_pending"
    /\ IF IsPending(vacation_requests[call.pos])
       THEN Serving(t, [call EXCEPT !.pc = "write_status"])
       ELSE Returning(t, call, Response(call.op, 400,
                                        "Request has already been processed", <<>>))
    /\ UNCHANGED <<employees, vacation_requests, resp>>

\* request_to_process['status'] = status
ProcessWriteStatus(t) ==
    LET call == threads[t] IN
    /\ call.pc = "write_status"
    /\ vacation_requests' =
          [vacation_requests EXCEPT ![call.pos].status = call.data.status]
    /\ Serving(t, [call EXCEPT !.pc = "write_processed_by"])
    /\ UNCHANGED <<employees, resp>>

\* request_to_process['processed_by'] = manager_id, and the return
ProcessWriteProcessedBy(t) ==
    LET call == threads[t] IN
    /\ call.pc = "write_processed_by"
    /\ vacation_requests' =
          [vacation_requests EXCEPT ![call.pos].processed_by = call.manager_id]
    /\ Returning(t, call, Response(call.op, 200,
                                   IF call.data.status = "approved"
                                   THEN "Request has been approved"
                                   ELSE "Request has been rejected", <<>>))
    /\ UNCHANGED <<employees, resp>>

\* a read holds references to the request objects of the ledger, which are
\* never removed: sel is the sequence of their positions
ReadCall(op, id, status) ==
    [pc |-> "idle", op |-> op, id |-> id, status |-> status, sel |-> <<>>,
     ret |-> Response("", 0, "", <<>>)]

\* get_employee_requests: the comprehension on the applicant
GetEmployeeRequestsBegin(t, employee_id, status) ==
    LET call == ReadCall("get_employee_requests", employee_id, status)
        Mine(i) == vacation_requests[i].applicant = employee_id
    IN
    /\ threads[t].pc = "idle"
    /\ Serving(t, [call EXCEPT !.pc = "filter",
                               !.sel = SelectSeq([i \in 1..Len(vacation_requests) |-> i],
                                                 Mine)])
    /\ UNCHANGED <<employees, vacation_requests, resp>>

\* get_manager_requests: the check of the caller and the copy of the ledger
GetManagerRequestsBegin(t, manager_id, status) ==
    LET call == ReadCall("get_manager_requests", manager_id, status) IN
    /\ threads[t].pc = "idle"
    /\ IF ~is_manager(manager_id)
       THEN Returning(t, call, Response(call.op, 401, "Unauthorized", <<>>))
       ELSE Serving(t, [call EXCEPT !.pc = "filter",
                                    !.sel = [i \in 1..Len(vacation_requests) |-> i]])
    /\ UNCHANGED <<employees, vacation_requests, resp>>

\* if status: the comprehension on the status
ReadFilter(t) ==
    LET call == threads[t]
        Keep(i) == vacation_requests[i].status = call.status
    IN
    /\ call.pc = "filter"
    /\ Serving(t, [call EXCEPT !.pc = "jsonify",
                               !.sel = IF call.status # ""
                                       THEN SelectSeq(call.sel, Keep) ELSE call.sel])
    /\ UNCHANGED <<employees, vacation_requests, resp>>

\* jsonify reads the fields of the requests selected
ReadJsonify(t) ==
    LET call == threads[t] IN
    /\ call.pc = "jsonify"
    /\ Returning(t, call, Response(call.op, 200, "",
                     [k \in DOMAIN call.sel |-> vacation_requests[call.sel[k]]]))
    /\ UNCHANGED <<employees, vacation_requests, resp>>

\* get_overlapping_requests: the check of the caller and the nested loops;
\* the pairs found are pairs of request objects, here of their positions,
\* which are their request ids as long as whole calls fill the ledger
GetOverlappingRequestsBegin(t, manager_id) ==
    LET call == ReadCall("get_overlapping_requests", manager_id, "")
        pairs == OverlappingRequests(vacation_requests)
    IN
    /\ threads[t].pc = "idle"
    /\ IF ~is_manager(manager_id)
       THEN Returning(t, call, Response(call.op, 401, "Unauthorized", <<>>))
       ELSE Serving(t, [call EXCEPT !.pc = "jsonify_pairs",
                           !.sel = [k \in DOMAIN pairs |->
                                       <<pairs[k][1].request_id, pairs[k][2].request_id>>]])
    /\ UNCHANGED <<employees, vacation_requests, resp>>

\* jsonify reads the fields of the requests of the pairs found
ReadJsonifyPairs(t) ==
    LET call == threads[t] IN
    /\ call.pc = "jsonify_pairs"
    /\ Returning(t, call, Response(call.op, 200, "",
                     [k \in DOMAIN call.sel |->
                         <<vacation_requests[call.sel[k][1]],
                           vacation_requests[call.sel[k][2]]>>]))
    /\ UNCHANGED <<employees, vacation_requests, resp>>

ProcessingBodies == {Dates(Mon04, Fri15)}

NextProcessing ==
    \/ \E d \in ProcessingBodies :
          Whole(MakeVacationRequest(1, d)) /\ Len(vacation_requests') <= MaxProcessingLedger
    \/ \E t \in Threads, m \in DOMAIN managers, r \in 1..MaxProcessingLedger,
          st \in {"approved", "rejected"} : ProcessBegin(t, m, r, [status |-> st])
    \/ \E t \in Threads : ProcessCheck(t)
    \/ \E t \in Threads : ProcessWriteStatus(t)
    \/ \E t \in Threads : ProcessWriteProcessedBy(t)

SpecProcessing == Init /\ [][NextProcessing]_vars

\* thread 1 serves process_request, thread 2 the reads
NextReading ==
    \/ \E e \in DOMAIN SeedEmployees, d \in ProcessingBodies :
          Whole(MakeVacationRequest(e, d)) /\ Len(vacation_requests') <= MaxReadingLedger
    \/ \E r \in 1..MaxReadingLedger, st \in {"approved", "rejected"} :
          ProcessBegin(1, 1, r, [status |-> st])
    \/ ProcessCheck(1)
    \/ ProcessWriteStatus(1)
    \/ ProcessWriteProcessedBy(1)
    \/ \E e \in DOMAIN SeedEmployees, f \in {"", "approved"} :
          GetEmployeeRequestsBegin(2, e, f)
    \/ \E f \in {"", "approved"} : GetManagerRequestsBegin(2, 1, f)
    \/ ReadFilter(2)
    \/ ReadJsonify(2)
    \/ GetOverlappingRequestsBegin(2, 1)
    \/ ReadJsonifyPairs(2)

SpecReading == Init /\ [][NextReading]_vars

---------------------------------------------------------------------------
(* make_vacation_request, step by step on the threads of the server *)

SubmitCall(employee_id, data) ==
    [pc |-> "idle", op |-> "make_vacation_request", employee_id |-> employee_id,
     data |-> data, vacation_duration |-> 0, request |-> <<>>,
     ret |-> Response("", 0, "", <<>>)]

\* make_vacation_request up to the end of the counting loop: nothing here
\* reads a balance or the ledger
SubmitBegin(t, employee_id, data) ==
    LET op == "make_vacation_request"
        call == SubmitCall(employee_id, data)
    IN
    /\ threads[t].pc = "idle"
    /\ IF employee_id \notin DOMAIN employees
       THEN Returning(t, call, InternalServerError(op))
       ELSE IF "vacation_start_date" \notin DOMAIN data
               \/ "vacation_end_date" \notin DOMAIN data
       THEN Returning(t, call, Response(op, 400, "Invalid request data", <<>>))
       ELSE
       LET start_date == fromisoformat(data.vacation_start_date)
           end_date == fromisoformat(data.vacation_end_date)
       IN
       IF ~start_date.valid \/ ~end_date.valid
       THEN Returning(t, call, InternalServerError(op))
       ELSE IF EndNotAfterStart(start_date, end_date)
       THEN Returning(t, call,
                      Response(op, 400, "End date must be after start date", <<>>))
       ELSE Serving(t, [call EXCEPT !.pc = "check_balance",
                           !.vacation_duration = BusinessDays(start_date, end_date)])
    /\ UNCHANGED <<employees, vacation_requests, resp>>

\* if employee["remaining_vacation_days"] < vacation_duration
SubmitCheck(t) ==
    LET call == threads[t]
        remaining == employees[call.employee_id].remaining_vacation_days
    IN
    /\ call.pc = "check_balance"
    /\ IF ~HasEnoughDays(remaining, call.vacation_duration)
       THEN Returning(t, call, Response(call.op, 400,
                                        "Not enough remaining vacation days", <<>>))
       ELSE Serving(t, [call EXCEPT !.pc = "debit"])
    /\ UNCHANGED <<employees, vacation_requests, resp>>

\* employee["remaining_vacation_days"] -= vacation_duration
SubmitDebit(t) ==
    LET call == threads[t]
        remaining == employees[call.employee_id].remaining_vacation_days
        start_date == fromisoformat(call.data.vacation_start_date)
        end_date == fromisoformat(call.data.vacation_end_date)
    IN
    /\ call.pc = "debit"
    /\ employees' = [employees EXCEPT
          ![call.employee_id].remaining_vacation_days =
              Debit(remaining, call.vacation_duration,
                    DeltaDays(start_date, end_date) + 1)]
    /\ Serving(t, [call EXCEPT !.pc = "build"])
    /\ UNCHANGED <<vacation_requests, resp>>

\* the dict of the new request, with len(vacation_requests) + 1 as its id
SubmitBuild(t) ==
    LET call == threads[t] IN
    /\ call.pc = "build"
    /\ Serving(t, [call EXCEPT !.pc = "append",
                      !.request = NewRequest(vacation_requests, call.employee_id,
                                     fromisoformat(call.data.vacation_start_date),
                                     fromisoformat(call.data.vacation_end_date))])
    /\ UNCHANGED <<employees, vacation_requests, resp>>

\* vacation_requests.append, and the return
SubmitAppend(t) ==
    LET call == threads[t] IN
    /\ call.pc = "append"
    /\ vacation_requests' = Append(vacation_requests, call.request)
    /\ Returning(t, call, Response(call.op, 201, "Vacation request submitted", <<>>))
    /\ UNCHANGED <<employees, resp>>

Fri22 == DateText(2024, 3, 22)

SubmittingBodies ==
    { Dates(Mon04, Fri15),      \* 10 business days
      Dates(Mon04, Fri22),      \* 15 business days
      Dates(Fri15, Mon04) }     \* end before start

\* the threads that serve a call
InFlight == {t \in Threads : threads[t].pc # "idle"}

NextSubmitting ==
    \/ \E t \in Threads, e \in DOMAIN SeedEmployees, d \in SubmittingBodies :
          /\ Len(vacation_requests) + Cardinality(InFlight) < MaxSubmittingLedger
          /\ SubmitBegin(t, e, d)
    \/ \E t \in Threads : SubmitCheck(t)
    \/ \E t \in Threads : SubmitDebit(t)
    \/ \E t \in Threads : SubmitBuild(t)
    \/ \E t \in Threads : SubmitAppend(t)

SpecSubmitting == Init /\ [][NextSubmitting]_vars

---------------------------------------------------------------------------
(* Vocabulary of the properties *)

Positions == 1..Len(vacation_requests)

Balance(e) == employees[e].remaining_vacation_days

KnownEmployees == EmployeeIds \cap DOMAIN employees
Authorized == ManagerIds \cap DOMAIN managers
Unauthorised == ManagerIds \ DOMAIN managers

\* bodies with both keys, both of them dates
DatedBodies ==
    {d \in SubmitBodies :
        /\ {"vacation_start_date", "vacation_end_date"} \subseteq DOMAIN d
        /\ fromisoformat(d.vacation_start_date).valid
        /\ fromisoformat(d.vacation_end_date).valid}

StartOf(d) == fromisoformat(d.vacation_start_date)
EndOf(d) == fromisoformat(d.vacation_end_date)

\* bodies whose end is after their start: the ones a day count is computed for
OrderedBodies == {d \in DatedBodies : Instant(EndOf(d)) > Instant(StartOf(d))}

\* bodies whose end is not after their start
UnorderedBodies == DatedBodies \ OrderedBodies

\* the business-day count of each ordered body
CountOf == [d \in OrderedBodies |-> BusinessDays(StartOf(d), EndOf(d))]

Terminal(req) == req.status \in {"approved", "rejected"}

\* the instants a stored request covers
StoredStart(req) == Instant(fromisoformat(req.vacation_start_date))
StoredEnd(req) == Instant(fromisoformat(req.vacation_end_date))

\* both approved, of different employees, with intersecting inclusive ranges
Qualifies(r1, r2) ==
    /\ r1.status = "approved" /\ r2.status = "approved"
    /\ r1.applicant # r2.applicant
    /\ StoredStart(r1) <= StoredEnd(r2)
    /\ StoredStart(r2) <= StoredEnd(r1)

\* the Monday-to-Friday days among the days from the day of the stored start
\* to the day of the stored end, both included
WeekdaysCovered(req) ==
    Cardinality({o \in ToOrdinal(fromisoformat(req.vacation_start_date))
                       ..ToOrdinal(fromisoformat(req.vacation_end_date)) :
                    Weekday(o) < 5})

\* the sum of a sequence of numbers
RECURSIVE SumSeq(_)
SumSeq(seq) == IF seq = <<>> THEN 0 ELSE Head(seq) + SumSeq(Tail(seq))

\* the Monday-to-Friday days covered by the requests of employee e
WeekdaysOf(e) ==
    SumSeq([i \in Positions |->
               IF vacation_requests[i].applicant = e
               THEN WeekdaysCovered(vacation_requests[i]) ELSE 0])

\* the business days make_vacation_request counts for a stored request
CountedDays(req) ==
    BusinessDays(fromisoformat(req.vacation_start_date),
                 fromisoformat(req.vacation_end_date))

\* the business days counted for the requests of employee e, whatever
\* their status
CountedOf(e) ==
    SumSeq([i \in Positions |->
               IF vacation_requests[i].applicant = e
               THEN CountedDays(vacation_requests[i]) ELSE 0])

\* the days employee e has paid since the directory was seeded
Paid(e) == SeedEmployees[e].remaining_vacation_days - Balance(e)

\* the positions of the requests a list read has to return: those of
\* applicant e (of anyone when e is None) with status f (any when f is "")
Matching(e, f) ==
    {i \in Positions :
        /\ e = None \/ vacation_requests[i].applicant = e
        /\ f = "" \/ vacation_requests[i].status = f}

\* data holds the requests at the positions S, each once, in ledger order
ListsExactly(data, S) ==
    /\ Len(data) = Cardinality(S)
    /\ \A k \in 1..Len(data) :
          /\ \E i \in S : data[k] = vacation_requests[i]
          /\ \A j \in 1..(k - 1) : data[j].request_id < data[k].request_id

\* the requests a read has returned on thread t
Observed(t) ==
    LET data == threads[t].ret.data IN
    IF threads[t].op \in {"get_employee_requests", "get_manager_requests"}
    THEN {data[k] : k \in DOMAIN data}
    ELSE IF threads[t].op = "get_overlapping_requests"
    THEN {data[k][1] : k \in DOMAIN data} \cup {data[k][2] : k \in DOMAIN data}
    ELSE {}

\* thread t has served a process_request that found its request
FoundByProcess(t) ==
    /\ threads[t].op = "process_request"
    /\ threads[t].pc = "idle"
    /\ threads[t].pos # 0

OverlapsAnswered == resp.op = "get_overlapping_requests" /\ resp.code = 200

LedgerUnchanged == UNCHANGED <<employees, vacation_requests>>

---------------------------------------------------------------------------
(* Properties *)

\* C1: in every step, a request that is approved or rejected keeps its status
\* and its processed_by, and a request whose status changes goes from pending
\* to approved or to rejected; so each status changes at most once.
C1_StatusChangesOnce ==
    [][\A i \in Positions :
          /\ i \in 1..Len(vacation_requests')
          /\ Terminal(vacation_requests[i]) =>
                /\ vacation_requests'[i].status = vacation_requests[i].status
                /\ vacation_requests'[i].processed_by = vacation_requests[i].processed_by
          /\ vacation_requests'[i].status # vacation_requests[i].status =>
                /\ vacation_requests[i].status = "pending"
                /\ Terminal(vacation_requests'[i])]_vars

\* C1 witness: a processed request stands in the ledger and a later
\* process_request on the ledger was answered "already processed"
C1_Witness ==
    /\ resp.op = "process_request"
    /\ resp.msg = "Request has already been processed"
    /\ \E i \in Positions : vacation_requests[i].status = "rejected"
    /\ \E i \in Positions : vacation_requests[i].status = "approved"

\* C2: a successful submission by employee e of a body with business-day
\* count n lowers e's balance by n, appends one pending request of e with
\* processed_by None, and changes no other balance and no existing request.
C2_SubmitEffect ==
    [][\A e \in EmployeeIds, d \in SubmitBodies :
          (resp'.code = 201 /\ MakeVacationRequest(e, d)) =>
             /\ e \in KnownEmployees /\ d \in OrderedBodies
             /\ Balance(e)' = Balance(e) - CountOf[d]
             /\ \A o \in DOMAIN employees \ {e} : employees'[o] = employees[o]
             /\ DOMAIN employees' = DOMAIN employees
             /\ employees'[e].name = employees[e].name
             /\ Len(vacation_requests') = Len(vacation_requests) + 1
             /\ SubSeq(vacation_requests', 1, Len(vacation_requests)) = vacation_requests
             /\ LET new == vacation_requests'[Len(vacation_requests')]
                IN  /\ new.applicant = e
                    /\ new.status = "pending"
                    /\ new.processed_by = None]_vars

\* C2 witness: the second request was just submitted, each employee has
\* made one request and paid ten days for it
C2_Witness ==
    /\ resp.op = "make_vacation_request" /\ resp.code = 201
    /\ Len(vacation_requests) = 2
    /\ vacation_requests[1].applicant = 1 /\ vacation_requests[2].applicant = 2
    /\ Balance(1) = 10 /\ Balance(2) = 10

\* C3: no balance is ever negative.
C3_BalanceNonNegative == \A e \in DOMAIN employees : Balance(e) >= 0

\* C3 witness: a balance is used up and a further request was refused for it
C3_Witness ==
    /\ \E e \in DOMAIN employees : Balance(e) = 0
    /\ resp.msg = "Not enough remaining vacation days"

\* C4: after every step the request at position i of the ledger has
\* request_id i, and a submission that fails leaves the ledger as it was,
\* so it consumes no id.
C4_IdIsPosition ==
    [][/\ \A i \in 1..Len(vacation_requests') : vacation_requests'[i].request_id = i
       /\ (resp'.op = "make_vacation_request" /\ resp'.code # 201) =>
             vacation_requests' = vacation_requests]_vars

\* C5: process_request by a manager, with status approved or rejected, on a
\* request that is already approved or rejected answers 400 "Request has
\* already been processed" and leaves the ledger, hence that request's
\* status and processed_by, and the balances unchanged.
C5_ReprocessConflict ==
    [][\A m \in Authorized, r \in RequestIds, st \in {"approved", "rejected"} :
          (/\ resp'.op = "process_request"
           /\ \E i \in Positions : /\ vacation_requests[i].request_id = r
                                   /\ Terminal(vacation_requests[i])
           /\ ProcessRequest(m, r, [status |-> st])) =>
             /\ resp'.code = 400
             /\ resp'.msg = "Request has already been processed"
             /\ LedgerUnchanged]_vars

\* C5 witness: "already processed" was answered while the ledger holds a
\* request approved by manager 1 and a request rejected by manager 2
C5_Witness ==
    /\ resp.op = "process_request" /\ resp.code = 400
    /\ resp.msg = "Request has already been processed"
    /\ \E i \in Positions : /\ vacation_requests[i].status = "approved"
                            /\ vacation_requests[i].processed_by = 1
    /\ \E i \in Positions : /\ vacation_requests[i].status = "rejected"
                            /\ vacation_requests[i].processed_by = 2

\* C6: a submission by a known employee whose business-day count exceeds the
\* employee's balance answers 400 "Not enough remaining vacation days" and
\* leaves the balances and the ledger unchanged; a submission whose count is
\* at most the balance is never answered that way.
C6_InsufficientBalance ==
    [][\A e \in KnownEmployees, d \in OrderedBodies :
          resp'.op = "make_vacation_request" =>
          IF CountOf[d] > Balance(e)
          THEN \/ /\ resp'.code = 400
                  /\ resp'.msg = "Not enough remaining vacation days"
                  /\ LedgerUnchanged
               \/ ~MakeVacationRequest(e, d)
          ELSE \/ resp'.msg # "Not enough remaining vacation days"
               \/ ~MakeVacationRequest(e, d)]_vars

\* C6 witness: a refusal for lack of days while one employee has no day left
\* and the other has all twenty
C6_Witness ==
    /\ resp.op = "make_vacation_request" /\ resp.code = 400
    /\ resp.msg = "Not enough remaining vacation days"
    /\ Len(vacation_requests) = 2
    /\ \E e \in DOMAIN employees : Balance(e) = 0
    /\ \E e \in DOMAIN employees : Balance(e) = 20

\* C7: a submission by a known employee whose end is not after its start
\* answers 400 "End date must be after start date", whatever the balance,
\* and leaves the balances and the ledger unchanged.
C7_EndNotAfterStart ==
    [][\A e \in KnownEmployees, d \in UnorderedBodies :
          resp'.op = "make_vacation_request" =>
             \/ /\ resp'.code = 400
                /\ resp'.msg = "End date must be after start date"
                /\ LedgerUnchanged
             \/ ~MakeVacationRequest(e, d)]_vars

\* C7 witness: the refusal is given while an employee has days left and
\* while an employee has none
C7_Witness ==
    /\ resp.op = "make_vacation_request" /\ resp.code = 400
    /\ resp.msg = "End date must be after start date"
    /\ \E e \in DOMAIN employees : Balance(e) = 0
    /\ \E e \in DOMAIN employees : Balance(e) >= 10

\* C8: the answer of get_overlapping_requests to a manager holds the pair of
\* the requests at positions i < j exactly when both are approved, their
\* applicants differ and their inclusive date ranges intersect, and it holds
\* nothing but such pairs.
C8_OverlapIff ==
    OverlapsAnswered =>
       /\ \A i, j \in Positions :
             i < j =>
                ((\E k \in DOMAIN resp.data :
                     resp.data[k] = <<vacation_requests[i], vacation_requests[j]>>)
                 <=> Qualifies(vacation_requests[i], vacation_requests[j]))
       /\ \A k \in DOMAIN resp.data :
             \E i, j \in Positions :
                /\ i < j
                /\ resp.data[k] = <<vacation_requests[i], vacation_requests[j]>>

\* C8 witness: a pair is reported whose earlier request lies strictly
\* inside the later one
C8_Witness ==
    /\ OverlapsAnswered
    /\ Len(resp.data) = 1
    /\ StoredStart(resp.data[1][2]) < StoredStart(resp.data[1][1])
    /\ StoredEnd(resp.data[1][1]) < StoredEnd(resp.data[1][2])

\* C9: the answer of get_overlapping_requests holds each qualifying pair of
\* ledger positions once, earlier request first, in the order of the first
\* position and then of the second; three approved requests of three
\* different employees that overlap each other give exactly three pairs.
C9_PairsOnceInOrder ==
    OverlapsAnswered =>
       LET data == resp.data
           PosOf(req) == CHOOSE i \in Positions : vacation_requests[i] = req
           First(k) == PosOf(data[k][1])
           Second(k) == PosOf(data[k][2])
           Among(ps) == {k \in DOMAIN data : {First(k), Second(k)} \subseteq ps}
       IN  /\ \A k \in DOMAIN data :
                 /\ \E i \in Positions : vacation_requests[i] = data[k][1]
                 /\ \E i \in Positions : vacation_requests[i] = data[k][2]
                 /\ First(k) < Second(k)
           /\ \A k, l \in DOMAIN data :
                 k < l => \/ First(k) < First(l)
                          \/ First(k) = First(l) /\ Second(k) < Second(l)
           /\ \A i, j \in Positions :
                 (i < j /\ Qualifies(vacation_requests[i], vacation_requests[j])) =>
                    Cardinality({k \in DOMAIN data : First(k) = i /\ Second(k) = j}) = 1
           /\ \A a, b, c \in Positions :
                 (/\ a < b /\ b < c
                  /\ Qualifies(vacation_requests[a], vacation_requests[b])
                  /\ Qualifies(vacation_requests[a], vacation_requests[c])
                  /\ Qualifies(vacation_requests[b], vacation_requests[c])) =>
                    Cardinality(Among({a, b, c})) = 3

\* C9 witness: three pairs are reported for three approved requests of three
\* different employees
C9_Witness ==
    /\ OverlapsAnswered
    /\ Len(resp.data) = 3
    /\ Len(vacation_requests) = 3
    /\ Cardinality({vacation_requests[i].applicant : i \in Positions}) = 3

\* C10: list-all-requests, find-overlaps and process-request called with an
\* id that is not a manager's answer 401 "Unauthorized" and leave the ledger
\* and the balances unchanged, whatever the filter, the request id and the
\* body of the call.
C10_Unauthorized ==
    [][\A m \in Unauthorised :
          /\ \A f \in StatusFilters :
                (resp'.op = "get_manager_requests" /\ GetManagerRequests(m, f)) =>
                   (resp'.code = 401 /\ resp'.msg = "Unauthorized" /\ LedgerUnchanged)
          /\ (resp'.op = "get_overlapping_requests" /\ GetOverlappingRequests(m)) =>
                   (resp'.code = 401 /\ resp'.msg = "Unauthorized" /\ LedgerUnchanged)
          /\ \A r \in RequestIds, d \in ProcessBodies :
                (resp'.op = "process_request" /\ ProcessRequest(m, r, d)) =>
                   (resp'.code = 401 /\ resp'.msg = "Unauthorized" /\ LedgerUnchanged)]_vars

\* C10 witness: process_request was refused as unauthorized while the ledger
\* holds a pending and a processed request
C10_Witness ==
    /\ resp.op = "process_request" /\ resp.code = 401
    /\ \E i \in Positions : vacation_requests[i].status = "pending"
    /\ \E i \in Positions : Terminal(vacation_requests[i])

\* C11: get-balance and submit-request called with an id that is not in the
\* employee directory answer 404 "Employee not found" and leave the ledger
\* and the balances unchanged.
C11_UnknownEmployeeNotFound ==
    [][\A e \in EmployeeIds \ DOMAIN employees :
          /\ (resp'.op = "get_remaining_vacation_days" /\ GetRemainingVacationDays(e)) =>
                (resp'.code = 404 /\ resp'.msg = "Employee not found" /\ LedgerUnchanged)
          /\ \A d \in SubmitBodies :
                (resp'.op = "make_vacation_request" /\ MakeVacationRequest(e, d)) =>
                   (resp'.code = 404 /\ resp'.msg = "Employee not found"
                    /\ LedgerUnchanged)]_vars

\* C12: a successful process_request by manager m on request r with status
\* st sets the status of r to st and its processed_by to m, and changes
\* nothing else: not the id, applicant or dates of r, not another request,
\* not the length of the ledger, not a balance.
C12_ProcessFrame ==
    [][\A m \in ManagerIds, r \in RequestIds, d \in ProcessBodies :
          (resp'.op = "process_request" /\ resp'.code = 200 /\ ProcessRequest(m, r, d)) =>
             /\ employees' = employees
             /\ Len(vacation_requests') = Len(vacation_requests)
             /\ \E i \in Positions :
                   /\ vacation_requests[i].request_id = r
                   /\ vacation_requests'[i].status = d.status
                   /\ vacation_requests'[i].processed_by = m
                   /\ vacation_requests'[i].request_id = vacation_requests[i].request_id
                   /\ vacation_requests'[i].applicant = vacation_requests[i].applicant
                   /\ vacation_requests'[i].vacation_start_date
                         = vacation_requests[i].vacation_start_date
                   /\ vacation_requests'[i].vacation_end_date
                         = vacation_requests[i].vacation_end_date
                   /\ \A j \in Positions \ {i} :
                         vacation_requests'[j] = vacation_requests[j]]_vars

\* C12 witness: a request was just rejected, every request of the ledger is
\* rejected by manager 2 and both employees are still ten days short
C12_Witness ==
    /\ resp.op = "process_request" /\ resp.code = 200
    /\ resp.msg = "Request has been rejected"
    /\ Len(vacation_requests) = 2
    /\ \A i \in Positions : /\ vacation_requests[i].status = "rejected"
                            /\ vacation_requests[i].processed_by = 2
    /\ Balance(1) = 10 /\ Balance(2) = 10

\* C13: the business days charged for the requests of an employee are the
\* Monday-to-Friday days of the inclusive day ranges of those requests.
C13_CountIsWeekdays ==
    \A e \in DOMAIN SeedEmployees :
        Paid(e) = WeekdaysOf(e)

\* C14: the list of an employee is answered 200 with exactly the requests of
\* that applicant that pass the filter, in ledger order, an empty list when
\* there are none, also for an employee nobody knows; the list of an
\* authorized manager is the whole ledger under the same filter and order;
\* neither changes the ledger or the balances.
C14_ListReads ==
    [][\A f \in StatusFilters :
          /\ \A e \in EmployeeIds :
                (resp'.op = "get_employee_requests" /\ GetEmployeeRequests(e, f)) =>
                   /\ resp'.code = 200
                   /\ ListsExactly(resp'.data, Matching(e, f))
                   /\ LedgerUnchanged
          /\ \A m \in Authorized :
                (resp'.op = "get_manager_requests" /\ GetManagerRequests(m, f)) =>
                   /\ resp'.code = 200
                   /\ ListsExactly(resp'.data, Matching(None, f))
                   /\ LedgerUnchanged]_vars

\* C14 witness: of the two requests of employee 1, one approved and one
\* pending, the list filtered by "pending" holds the second only
C14_Witness ==
    /\ resp.op = "get_employee_requests"
    /\ Len(vacation_requests) = 2
    /\ \A i \in Positions : vacation_requests[i].applicant = 1
    /\ vacation_requests[1].status = "approved"
    /\ vacation_requests[2].status = "pending"
    /\ resp.data = <<vacation_requests[2]>>

\* C15: process_request answers by the first check that fails, in the order:
\* the caller is not a manager (401 "Unauthorized"); the body has no status,
\* or one that is neither approved nor rejected (400 "Invalid request data",
\* 400 "Invalid status"); no request has the id (404 "Request not found");
\* the request is not pending (400 "Request has already been processed");
\* otherwise 200. Every answer but 200 leaves the ledger and the balances
\* unchanged.
C15_FirstFailingCheck ==
    [][\A m \in ManagerIds, r \in RequestIds, d \in ProcessBodies :
          (resp'.op = "process_request" /\ ProcessRequest(m, r, d)) =>
             /\ resp'.code # 200 => LedgerUnchanged
             /\ IF m \notin DOMAIN managers
                THEN resp'.code = 401 /\ resp'.msg = "Unauthorized"
                ELSE IF "status" \notin DOMAIN d
                THEN resp'.code = 400 /\ resp'.msg = "Invalid request data"
                ELSE IF d.status \notin {"approved", "rejected"}
                THEN resp'.code = 400 /\ resp'.msg = "Invalid status"
                ELSE IF \A i \in Positions : vacation_requests[i].request_id # r
                THEN resp'.code = 404 /\ resp'.msg = "Request not found"
                ELSE IF \E i \in Positions : /\ vacation_requests[i].request_id = r
                                             /\ vacation_requests[i].status # "pending"
                THEN /\ resp'.code = 400
                     /\ resp'.msg = "Request has already been processed"
                ELSE resp'.code = 200]_vars

\* C15 witness: "Invalid status" was answered while the only request of the
\* ledger is approved, so that the request aimed at was processed or absent
C15_Witness ==
    /\ resp.op = "process_request" /\ resp.code = 400
    /\ resp.msg = "Invalid status"
    /\ Len(vacation_requests) = 1
    /\ vacation_requests[1].status = "approved"

\* C19: in every state, for each employee, the seeded balance minus the
\* balance is the sum of the business days counted for the requests of that
\* applicant in the ledger, pending, approved and rejected alike.
C19_BalanceAccountsForLedger ==
    \A e \in DOMAIN SeedEmployees : Paid(e) = CountedOf(e)

\* C19 witness: an employee has paid 20 days for two requests, one of them
\* rejected and the other one approved or pending
C19_Witness ==
    \E e \in DOMAIN SeedEmployees :
        /\ Paid(e) = 20
        /\ \E i, j \in Positions :
              /\ vacation_requests[i].applicant = e
              /\ vacation_requests[j].applicant = e
              /\ vacation_requests[i].status = "rejected"
              /\ vacation_requests[j].status # "rejected"

\* C20: in every state, every request of the ledger has processed_by None
\* exactly when it is pending, a processed_by that is not None is a
\* manager's id, its applicant is in the directory, and its stored end is
\* strictly after its stored start.
C20_RequestWellFormed ==
    \A i \in Positions :
        LET req == vacation_requests[i] IN
        /\ req.processed_by = None <=> req.status = "pending"
        /\ req.processed_by # None => req.processed_by \in DOMAIN managers
        /\ req.applicant \in DOMAIN employees
        /\ StoredStart(req) < StoredEnd(req)

\* C20 witness: the ledger holds a pending request and a request processed
\* by manager 2
C20_Witness ==
    /\ \E i \in Positions : /\ vacation_requests[i].status = "pending"
                            /\ vacation_requests[i].processed_by = None
    /\ \E i \in Positions : /\ Terminal(vacation_requests[i])
                            /\ vacation_requests[i].processed_by = 2

\* C16: no read that runs while a process_request runs returns a request
\* whose status is approved or rejected and whose processed_by is still None.
C16_NoHalfProcessedObserved ==
    \A t \in Threads : \A req \in Observed(t) :
        ~(Terminal(req) /\ req.processed_by = None)

\* C18: when two process_request calls by managers found the same request
\* and one of them was answered 200, the other one was answered 400 "Request
\* has already been processed", and the status and processed_by of the
\* request are those of the call answered 200.
C18_OneProcessingWins ==
    \A t, u \in Threads :
        (/\ t # u
         /\ FoundByProcess(t) /\ FoundByProcess(u)
         /\ threads[t].pos = threads[u].pos
         /\ threads[t].ret.code = 200) =>
            /\ threads[u].ret.code = 400
            /\ threads[u].ret.msg = "Request has already been processed"
            /\ vacation_requests[threads[t].pos].status = threads[t].data.status
            /\ vacation_requests[threads[t].pos].processed_by = threads[t].manager_id

\* C17: with two make_vacation_request calls interleaved step by step, in
\* every state the request at position i has request_id i, no balance is
\* negative, and once the calls have returned every employee has paid the
\* business days counted for the requests of that applicant in the ledger.
C17_SubmitsStayConsistent ==
    /\ \A i \in Positions : vacation_requests[i].request_id = i
    /\ \A e \in DOMAIN employees : Balance(e) >= 0
    /\ (\A t \in Threads : threads[t].pc = "idle") =>
          \A e \in DOMAIN SeedEmployees : Paid(e) = CountedOf(e)

\* C4 witness: two requests in the ledger after a refused submission
C4_Witness ==
    /\ Len(vacation_requests) = 2
    /\ resp.op = "make_vacation_request" /\ resp.code = 400

====
